---- MODULE Spec2Model ----
(***************************************************************************)
(* Model of package viz (src/viz/image.go): Image.Init, which decodes an   *)
(* image, resolves the render geometry and composites/quantizes the        *)
(* frames, and Image.Draw, which plays the frames on a Writer.             *)
(*                                                                         *)
(* Four specifications share the variables and the actions:                *)
(*   Spec      Image.Init from a fresh Image, step by step, on still       *)
(*             images and on GIFs of opaque frames;                        *)
(*   SpecGif   the compositing of Init (lines 131-166) on GIFs whose       *)
(*             frames cover any part of the canvas;                        *)
(*   SpecGeom  the geometry resolution of Init (lines 65-110) over a wide  *)
(*             range of image sizes, user widths and terminals;            *)
(*   SpecDraw  Image.Draw on an Image and a Writer that may fail.          *)
(***************************************************************************)
EXTENDS Integers, Sequences, FiniteSets, TLC

(***************************************************************************)
(* Bounds of the model.                                                    *)
(***************************************************************************)
\* Spec (Image.Init, whole) and SpecGif (the compositing loop)
NPix == 2               \* the GIF canvas is NPix x 1 pixels
MaxFrames == 2          \* frames of a GIF file
MaxGifDelay == 1        \* g.Delay[i], in 1/100 s
MaxMultiplier == 2      \* |DelayMultiplier|, counted in halves
MaxLoopCount == 1       \* the caller's LoopCount ranges over -1..MaxLoopCount
MaxUserWidth == 1       \* the caller's UserWidth ranges over 0..MaxUserWidth
MaxTerm == 2            \* terminal columns and lines range over 1..MaxTerm
\* SpecGeom
GeomMaxWidth == 11      \* intrinsic widths 1..GeomMaxWidth (and one above tw := 40)
GeomMaxHeight == 3
GeomMaxUserWidth == 15
GeomMaxCols == 3        \* terminal columns 1..GeomMaxCols (and one above tw := 40)
GeomMaxLines == 2
\* SpecDraw
DrawMaxFrames == 2
DrawMaxLoop == 2
DrawMaxSide == 2        \* img.w and img.h range over 0..DrawMaxSide
DrawMaxDelay == 1

(***************************************************************************)
(* float64 arithmetic on positive values, as used at lines 71 and 102-109. *)
(* [exp, d1, d2, d3, d4] is the binary64 value                             *)
(*   (1 + d1/B + d2/B^2 + d3/B^3 + d4/B^4) * 2^exp,  B = DigitBase = 2^13, *)
(* i.e. a normalised 53-bit significand.  Every operation rounds to        *)
(* nearest, ties to even, like the hardware.  Operands stay below 2^17.    *)
(***************************************************************************)
DigitBase == 8192

RECURSIVE Pow2(_)
Pow2(k) == IF k = 0 THEN 1 ELSE 2 * Pow2(k - 1)

\* the largest e >= 0 with b * 2^e <= a (for a >= b)
RECURSIVE ExpUp(_, _)
ExpUp(a, b) == IF 2 * b <= a THEN 1 + ExpUp(a, 2 * b) ELSE 0

\* the smallest k >= 0 with a * 2^k >= b
RECURSIVE ExpDown(_, _)
ExpDown(a, b) == IF a >= b THEN 0 ELSE 1 + ExpDown(2 * a, b)

Sign(n) == IF n > 0 THEN 1 ELSE IF n < 0 THEN -1 ELSE 0

\* round to nearest even; tail is the sign of (dropped part - half an ulp)
RoundEven(exp, d1, d2, d3, d4, tail) ==
    LET up == tail > 0 \/ (tail = 0 /\ d4 % 2 = 1)
        n4 == d4 + 1
        n3 == d3 + (n4 \div DigitBase)
        n2 == d2 + (n3 \div DigitBase)
        n1 == d1 + (n2 \div DigitBase)
    IN  IF ~up THEN [exp |-> exp, d1 |-> d1, d2 |-> d2, d3 |-> d3, d4 |-> d4]
        ELSE IF n1 >= DigitBase
             THEN [exp |-> exp + 1, d1 |-> 0, d2 |-> 0, d3 |-> 0, d4 |-> 0]
             ELSE [exp |-> exp, d1 |-> n1, d2 |-> n2 % DigitBase,
                   d3 |-> n3 % DigitBase, d4 |-> n4 % DigitBase]

\* the float64 constant 1.0
FOne == [exp |-> 0, d1 |-> 0, d2 |-> 0, d3 |-> 0, d4 |-> 0]

\* float64(a) / float64(b) for integers a, b > 0
FDiv(a, b) ==
    LET e   == IF a >= b THEN ExpUp(a, b) ELSE -ExpDown(a, b)
        num == IF e >= 0 THEN a ELSE a * Pow2(-e)
        den == IF e >= 0 THEN b * Pow2(e) ELSE b
        r0  == num - den
        r1  == (r0 * DigitBase) % den
        r2  == (r1 * DigitBase) % den
        r3  == (r2 * DigitBase) % den
        r4  == (r3 * DigitBase) % den
    IN  RoundEven(e, (r0 * DigitBase) \div den, (r1 * DigitBase) \div den,
                  (r2 * DigitBase) \div den, (r3 * DigitBase) \div den,
                  Sign(2 * r4 - den))

\* x * float64(n) for an integer n > 0
FMulInt(x, n) ==
    LET v4  == x.d4 * n
        v3  == x.d3 * n + (v4 \div DigitBase)
        v2  == x.d2 * n + (v3 \div DigitBase)
        v1  == x.d1 * n + (v2 \div DigitBase)
        top == n + (v1 \div DigitBase)
        s   == ExpUp(top, 1)
        p   == Pow2(s)
        w1  == (top % p) * DigitBase + (v1 % DigitBase)
        w2  == (w1 % p) * DigitBase + (v2 % DigitBase)
        w3  == (w2 % p) * DigitBase + (v3 % DigitBase)
        w4  == (w3 % p) * DigitBase + (v4 % DigitBase)
    IN  RoundEven(x.exp + s, w1 \div p, w2 \div p, w3 \div p, w4 \div p,
                  IF s = 0 THEN -1 ELSE Sign(2 * (w4 % p) - p))

\* int(math.Floor(x)) for 0 < x < 2^27
FFloor(x) ==
    IF x.exp < 0 THEN 0
    ELSE IF x.exp <= 13 THEN Pow2(x.exp) + (x.d1 \div Pow2(13 - x.exp))
    ELSE Pow2(x.exp) + x.d1 * Pow2(x.exp - 13) + (x.d2 \div Pow2(26 - x.exp))

FKey(x) == <<x.exp, x.d1, x.d2, x.d3, x.d4>>

FLess(x, y) ==
    \E k \in 1..5 : /\ FKey(x)[k] < FKey(y)[k]
                    /\ \A j \in 1..(k - 1) : FKey(x)[j] = FKey(y)[j]

\* a faulty FMin: math.Max in place of math.Min
FMax(x, y) == IF FLess(x, y) THEN y ELSE x

\* math.Min(x, y)
FMin(x, y) == IF FLess(y, x) THEN y ELSE x

(***************************************************************************)
(* State.                                                                  *)
(***************************************************************************)
VARIABLES
    \* exported fields of Image, set by the caller
    LoopCount,          \* img.LoopCount (Init overwrites it at line 162)
    DelayMultiplier,    \* img.DelayMultiplier, counted in halves (2 is 1.0)
    UserWidth,          \* img.UserWidth
    requested,          \* history: the LoopCount the caller configured
    \* environment
    file,               \* the image file at img.Filename
    termCols,           \* what `tput cols` reports
    termLines,          \* what `tput lines` reports
    open,               \* the os.File handles that are open
    tput,               \* the tput commands run so far
    \* private fields of Image
    frames,             \* img.frames
    w,                  \* img.w
    h,                  \* img.h
    \* control and locals of Init and Draw
    pc,                 \* where the running method is
    err,                \* what the method returned ("nil" or an error)
    imgFmt,             \* Init: imgFmt
    iw,                 \* Init: iw
    ih,                 \* Init: ih
    firstFrame,         \* Init: firstFrame, the raster image.Decode returned
    g,                  \* Init: g.Image, g.Delay, g.Disposal
    i,                  \* Init: index into g.Image;  Draw: the pass
    canvas,             \* Init: canvas, a *image.RGBA (an address in heap)
    prev,               \* Init: prev, a *image.RGBA (0 is nil)
    heap,               \* the image.RGBA objects allocated so far
    remembered,         \* history: canvas contents when prev was last assigned
    firstFrameDone,     \* Draw: firstFrameDone
    delay,              \* Draw: delay
    fr,                 \* Draw: index of the frame of the range loop
    y,                  \* Draw: y
    x,                  \* Draw: x
    sink,               \* the calls made on the Writer, with their outcome
    faults              \* how many more calls the Writer will fail

config == <<DelayMultiplier, UserWidth, requested>>
env    == <<file, termCols, termLines>>
image  == <<frames, w, h>>
initLocals == <<imgFmt, iw, ih, firstFrame, g, canvas, prev, heap, remembered>>
drawLocals == <<firstFrameDone, delay, fr, y, x, sink, faults>>
vars == <<LoopCount, config, env, open, tput, image, pc, err, i, initLocals, drawLocals>>

(***************************************************************************)
(* Init, lines 65-110: the geometry.                                       *)
(***************************************************************************)
\* tw := 40 (line 89)
DefaultCols == 40

\* line 90: whether `tput cols` is run
QueriesCols(fmt, lc) == fmt # "gif" \/ lc = 0

\* lines 89-95: tw
TermWidth(fmt, lc, tc) == IF QueriesCols(fmt, lc) THEN tc ELSE DefaultCols

\* line 100: th
TermHeight(tr) == (tr * 2) - 1

\* a faulty Scale: the image is fitted to the terminal even when it is smaller
ScaleAlwaysFit(uw, fmt, lc, iwidth, iheight, tc, tr) ==
    IF uw > 0 THEN FDiv(uw, iwidth)
    ELSE FMin(FDiv(TermWidth(fmt, lc, tc), iwidth), FDiv(TermHeight(tr), iheight))

\* lines 69-106: scale
Scale(uw, fmt, lc, iwidth, iheight, tc, tr) ==
    IF uw > 0 THEN FDiv(uw, iwidth)
    ELSE LET tw == TermWidth(fmt, lc, tc)
             th == TermHeight(tr)
         IN  IF tw < iwidth \/ th < iheight
             THEN FMin(FDiv(tw, iwidth), FDiv(th, iheight))
             ELSE FOne

\* line 108: img.w
Width(scale, iwidth) == FFloor(FMulInt(scale, iwidth))

\* lines 109-110: img.h
Height(scale, iheight) == FFloor(FMulInt(scale, iheight)) \div 2

\* lines 70-99: the tput commands a successful resolution runs
TputCmds(uw, fmt, lc) ==
    IF uw > 0 THEN <<>>
    ELSE IF QueriesCols(fmt, lc) THEN <<"cols", "lines">> ELSE <<"lines">>

ResolveGeometry ==
    /\ pc = "scale"
    /\ LET scale == Scale(UserWidth, imgFmt, LoopCount, iw, ih, termCols, termLines)
       IN  /\ w' = Width(scale, iw)
           /\ h' = Height(scale, ih)
    /\ tput' = tput \o TputCmds(UserWidth, imgFmt, LoopCount)
    /\ pc' = "frames"
    /\ UNCHANGED <<LoopCount, config, env, open, frames, err, i, initLocals, drawLocals>>

\* lines 91-94: tput cols fails (the command fails or prints no single integer)
TputColsFail ==
    /\ pc = "scale"
    /\ UserWidth <= 0
    /\ QueriesCols(imgFmt, LoopCount)
    /\ tput' = tput \o <<"cols">>
    /\ err' = "tput cols"
    /\ pc' = "returned"
    /\ UNCHANGED <<LoopCount, config, env, open, image, i, initLocals, drawLocals>>

\* lines 96-99: tput lines fails
TputLinesFail ==
    /\ pc = "scale"
    /\ UserWidth <= 0
    /\ tput' = tput \o TputCmds(UserWidth, imgFmt, LoopCount)
    /\ err' = "tput lines"
    /\ pc' = "returned"
    /\ UNCHANGED <<LoopCount, config, env, open, image, i, initLocals, drawLocals>>

(***************************************************************************)
(* Init, lines 53-63: opening and decoding the file.                       *)
(***************************************************************************)
Pixels == 1..NPix

\* a raster maps each pixel of the canvas to 0 (transparent) or to the colour
\* of the frame that painted it; frame k of a file paints with colour k
Blank == [p \in Pixels |-> 0]

\* draw.Draw(dst, dst.Bounds(), frame, image.ZP, draw.Over): the pixels the
\* frame defines replace those of dst
DrawOver(dst, colour, mask) == [p \in Pixels |-> IF p \in mask THEN colour ELSE dst[p]]

\* line 55
Open ==
    /\ pc = "open"
    /\ open' = open \cup {"file@55"}
    /\ pc' = "decode"
    /\ UNCHANGED <<LoopCount, config, env, tput, image, err, i, initLocals, drawLocals>>

\* lines 56-58
OpenFail ==
    /\ pc = "open"
    /\ err' = "open"
    /\ pc' = "returned"
    /\ UNCHANGED <<LoopCount, config, env, open, tput, image, i, initLocals, drawLocals>>

\* lines 59, 63-67
Decode ==
    /\ pc = "decode"
    /\ imgFmt' = file.fmt
    /\ iw' = file.iw
    /\ ih' = file.ih
    /\ open' = open \ {"file@55"}
    /\ pc' = "scale"
    /\ firstFrame' = DrawOver(Blank, 1, file.frames[1].mask)
    /\ UNCHANGED <<LoopCount, config, env, tput, image, err, i, g, canvas, prev,
                   heap, remembered, drawLocals>>

\* lines 59-62: image.Decode fails and Init returns
DecodeFail ==
    /\ pc = "decode"
    /\ err' = "decode"
    /\ pc' = "returned"
    /\ UNCHANGED <<LoopCount, config, env, open, tput, image, i, initLocals, drawLocals>>

(***************************************************************************)
(* Init, lines 112-166: scaling, quantizing and compositing the frames.    *)
(***************************************************************************)
\* lines 114-123: pic is the palette-indexed w x h resize of f.  resize.Resize
\* and Colors.Index are pure functions outside this file: the picture is kept
\* as the raster it was computed from and its size
Picture(f, width, height) == [src |-> f, w |-> width, h |-> height]

\* line 127: int(math.Ceil(float64(delayMS) / 10.0 * img.DelayMultiplier)), the
\* multiplier counted in halves.  delayMS is a multiple of 10 and the
\* multiplier a multiple of 1/2, so the float64 operations are exact
RenderDelay(delayMS, mult) == -((-((delayMS \div 10) * mult)) \div 2)

\* lines 113-129: appendImg
AppendImg(fs, f, delayMS, width, height, mult) ==
    Append(fs, [picture |-> Picture(f, width, height),
                delay |-> RenderDelay(delayMS, mult)])

\* a faulty IsAnimated: LoopCount 0 replays the animation too
IsAnimatedOrZero(fmt, lc) == fmt = "gif" /\ lc >= 0

\* line 131
IsAnimated(fmt, lc) == fmt = "gif" /\ lc > 0

\* gif.DisposalNone, gif.DisposalBackground, gif.DisposalPrevious (image/gif)
DisposalNone == 1
DisposalBackground == 2
DisposalPrevious == 3

\* a faulty Dispose: restore-to-background keeps the canvas, like none
DisposeNoReset(d, hp, cv, pv) ==
    IF d = DisposalBackground \/ d = DisposalNone
    THEN [heap |-> hp, canvas |-> cv, prev |-> cv]
    ELSE IF d = DisposalPrevious /\ pv # 0
    THEN [heap |-> hp, canvas |-> pv, prev |-> pv]
    ELSE [heap |-> hp, canvas |-> cv, prev |-> pv]

\* lines 148-158: the disposal switch, on the heap hp, canvas cv and prev pv.
\* image.NewRGBA allocates a fresh object; prev = &(*canvas) copies the
\* pointer, not the pixels
Dispose(d, hp, cv, pv) ==
    IF d = DisposalBackground
    THEN [heap |-> Append(hp, Blank), canvas |-> Len(hp) + 1, prev |-> Len(hp) + 1]
    ELSE IF d = DisposalNone
    THEN [heap |-> hp, canvas |-> cv, prev |-> cv]
    ELSE IF d = DisposalPrevious /\ pv # 0
    THEN [heap |-> hp, canvas |-> pv, prev |-> pv]
    ELSE [heap |-> hp, canvas |-> cv, prev |-> pv]

\* lines 161-166: a single picture
Static ==
    /\ pc = "frames"
    /\ ~IsAnimated(imgFmt, LoopCount)
    /\ LoopCount' = 1
    /\ frames' = AppendImg(frames, firstFrame, 0, w, h, DelayMultiplier)
    /\ err' = "nil"
    /\ pc' = "returned"
    /\ UNCHANGED <<config, env, open, tput, w, h, i, initLocals, drawLocals>>

\* lines 131-132
GifOpen ==
    /\ pc = "frames"
    /\ IsAnimated(imgFmt, LoopCount)
    /\ open' = open \cup {"file@132"}
    /\ pc' = "decodeAll"
    /\ UNCHANGED <<LoopCount, config, env, tput, image, err, i, initLocals, drawLocals>>

\* lines 133-135
GifOpenFail ==
    /\ pc = "frames"
    /\ IsAnimated(imgFmt, LoopCount)
    /\ err' = "open"
    /\ pc' = "returned"
    /\ UNCHANGED <<LoopCount, config, env, open, tput, image, i, initLocals, drawLocals>>

\* lines 136, 140-144
DecodeAll ==
    /\ pc = "decodeAll"
    /\ g' = file.frames
    /\ iw' = file.cw
    /\ ih' = file.ch
    /\ prev' = 0
    /\ heap' = Append(heap, Blank)
    /\ canvas' = Len(heap) + 1
    /\ i' = 0
    /\ pc' = "gif"
    /\ UNCHANGED <<LoopCount, config, env, open, tput, image, err, imgFmt, firstFrame,
                   remembered, drawLocals>>

\* lines 136-139: gif.DecodeAll fails and Init returns
DecodeAllFail ==
    /\ pc = "decodeAll"
    /\ err' = "decode"
    /\ pc' = "returned"
    /\ UNCHANGED <<LoopCount, config, env, open, tput, image, i, initLocals, drawLocals>>

\* lines 145-159: one iteration of the loop over g.Image
GifFrame ==
    /\ pc = "gif"
    /\ i < Len(g)
    /\ LET k     == i + 1
           drawn == [heap EXCEPT ![canvas] = DrawOver(heap[canvas], k, g[k].mask)]
           next  == Dispose(g[k].disposal, drawn, canvas, prev)
       IN  /\ frames' = AppendImg(frames, drawn[canvas], g[k].delay * 10, w, h,
                                  DelayMultiplier)
           /\ heap' = next.heap
           /\ canvas' = next.canvas
           /\ prev' = next.prev
           /\ remembered' = IF g[k].disposal \in {DisposalNone, DisposalBackground}
                            THEN <<next.heap[next.canvas]>>
                            ELSE remembered
    /\ i' = i + 1
    /\ UNCHANGED <<LoopCount, config, env, open, tput, w, h, pc, err, imgFmt, iw, ih,
                   firstFrame, g, drawLocals>>

\* lines 160, 166
GifDone ==
    /\ pc = "gif"
    /\ i >= Len(g)
    /\ open' = open \ {"file@132"}
    /\ err' = "nil"
    /\ pc' = "returned"
    /\ UNCHANGED <<LoopCount, config, env, tput, image, i, initLocals, drawLocals>>

(***************************************************************************)
(* Draw, lines 171-198.  A call on the Writer is recorded in sink as       *)
(* [op, text, fr, x, y, n, ok]: Write of the cell (x, y) of frame fr or of *)
(* "\n", LineUp(n), Sleep(n), Close(); ok tells whether it returned nil.   *)
(***************************************************************************)
WriteCellCall(k, xx, yy, ok) ==
    [op |-> "Write", text |-> "cell", fr |-> k, x |-> xx, y |-> yy, n |-> 0, ok |-> ok]

WriteNewlineCall(ok) ==
    [op |-> "Write", text |-> "\n", fr |-> 0, x |-> 0, y |-> 0, n |-> 0, ok |-> ok]

LineUpCall(rows, ok) ==
    [op |-> "LineUp", text |-> "", fr |-> 0, x |-> 0, y |-> 0, n |-> rows, ok |-> ok]

SleepCall(d, ok) ==
    [op |-> "Sleep", text |-> "", fr |-> 0, x |-> 0, y |-> 0, n |-> d, ok |-> ok]

CloseCall(ok) ==
    [op |-> "Close", text |-> "", fr |-> 0, x |-> 0, y |-> 0, n |-> 0, ok |-> ok]

\* what a call on the Writer may return: an error while it has faults left
Outcomes == IF faults > 0 THEN {TRUE, FALSE} ELSE {TRUE}

\* the call is made, with the given outcome
Call(c) ==
    /\ sink' = Append(sink, c)
    /\ faults' = IF c.ok THEN faults ELSE faults - 1

\* a faulty FrameDelay: the delay of the frame that comes next
FrameDelayOfNext(fs, k) == fs[(k % Len(fs)) + 1].delay

\* line 194: the delay carried to the next sleep
FrameDelay(fs, k) == fs[k].delay

\* lines 172-174
DrawBegin ==
    /\ pc = "ready"
    /\ firstFrameDone' = FALSE
    /\ delay' = 0
    /\ i' = 0
    /\ pc' = "pass"
    /\ UNCHANGED <<LoopCount, config, env, open, tput, image, err, initLocals,
                   fr, y, x, sink, faults>>

\* line 174: the loop over the passes
Pass ==
    /\ pc = "pass"
    /\ IF i < LoopCount
       THEN fr' = 1 /\ pc' = "frame"
       ELSE fr' = fr /\ pc' = "close"
    /\ UNCHANGED <<LoopCount, config, env, open, tput, image, err, i, initLocals,
                   firstFrameDone, delay, y, x, sink, faults>>

\* lines 175-176: the range over img.frames
FrameHead ==
    /\ pc = "frame"
    /\ IF fr <= Len(frames)
       THEN /\ pc' = IF firstFrameDone THEN "lineup" ELSE "row"
            /\ y' = 0
            /\ i' = i
       ELSE /\ pc' = "pass"
            /\ y' = y
            /\ i' = i + 1
    /\ UNCHANGED <<LoopCount, config, env, open, tput, image, err, initLocals,
                   firstFrameDone, delay, fr, x, sink, faults>>

\* lines 177-179
LineUp ==
    /\ pc = "lineup"
    /\ \E ok \in Outcomes :
        /\ Call(LineUpCall(h, ok))
        /\ pc' = IF ok THEN "sleep" ELSE "returned"
        /\ err' = IF ok THEN err ELSE "LineUp"
    /\ UNCHANGED <<LoopCount, config, env, open, tput, image, i, initLocals,
                   firstFrameDone, delay, fr, y, x>>

\* lines 180-182
Sleep ==
    /\ pc = "sleep"
    /\ \E ok \in Outcomes :
        /\ Call(SleepCall(delay, ok))
        /\ pc' = IF ok THEN "row" ELSE "returned"
        /\ err' = IF ok THEN err ELSE "Sleep"
    /\ UNCHANGED <<LoopCount, config, env, open, tput, image, i, initLocals,
                   firstFrameDone, delay, fr, y, x>>

\* lines 184, 193-194: the loop over the rows, and the end of a frame
Row ==
    /\ pc = "row"
    /\ IF y < h
       THEN /\ x' = 0
            /\ pc' = "cell"
            /\ UNCHANGED <<firstFrameDone, delay, fr>>
       ELSE /\ firstFrameDone' = TRUE
            /\ delay' = FrameDelay(frames, fr)
            /\ fr' = fr + 1
            /\ pc' = "frame"
            /\ x' = x
    /\ UNCHANGED <<LoopCount, config, env, open, tput, image, err, i, initLocals,
                   y, sink, faults>>

\* lines 185-187: the error Write returns is dropped
WriteCell ==
    /\ pc = "cell"
    /\ x < w
    /\ \E ok \in Outcomes : Call(WriteCellCall(fr, x, y, ok))
    /\ x' = x + 1
    /\ UNCHANGED <<LoopCount, config, env, open, tput, image, pc, err, i, initLocals,
                   firstFrameDone, delay, fr, y>>

\* lines 188-191
WriteNewline ==
    /\ pc = "cell"
    /\ x >= w
    /\ \E ok \in Outcomes :
        /\ Call(WriteNewlineCall(ok))
        /\ pc' = IF ok THEN "row" ELSE "returned"
        /\ err' = IF ok THEN err ELSE "Write"
        /\ y' = IF ok THEN y + 1 ELSE y
    /\ UNCHANGED <<LoopCount, config, env, open, tput, image, i, initLocals,
                   firstFrameDone, delay, fr, x>>

\* line 197
Close ==
    /\ pc = "close"
    /\ \E ok \in Outcomes :
        /\ Call(CloseCall(ok))
        /\ err' = IF ok THEN "nil" ELSE "Close"
    /\ pc' = "returned"
    /\ UNCHANGED <<LoopCount, config, env, open, tput, image, i, initLocals,
                   firstFrameDone, delay, fr, y, x>>

(***************************************************************************)
(* Spec: Image.Init on a fresh Image.                                      *)
(***************************************************************************)
\* sequences over S of length 1..n
SeqsUpTo(S, n) == UNION {[1..k -> S] : k \in 1..n}

GifFrames(masks, delays) == [mask : masks, delay : delays, disposal : 0..3]

\* a still image, and the GIF files with the given frames; the rasters are the
\* first NPix pixels of the first row of an NPix x NPix image
StillFile ==
    [fmt |-> "png", iw |-> NPix, ih |-> NPix, cw |-> NPix, ch |-> NPix,
     frames |-> <<[mask |-> Pixels, delay |-> 0, disposal |-> 0]>>]

GifFiles(frameSet, n) ==
    {[fmt |-> "gif", iw |-> NPix, ih |-> NPix, cw |-> NPix, ch |-> NPix, frames |-> fs] :
        fs \in SeqsUpTo(frameSet, n)}

\* the locals of Init before it has run
FreshInitLocals ==
    /\ imgFmt = "" /\ iw = 0 /\ ih = 0 /\ firstFrame = Blank /\ g = <<>>
    /\ canvas = 0 /\ prev = 0 /\ heap = <<>> /\ remembered = <<>>

\* the locals of Draw before it has run, and an untouched Writer
FreshDrawLocals ==
    /\ firstFrameDone = FALSE /\ delay = 0 /\ fr = 0 /\ y = 0 /\ x = 0
    /\ sink = <<>> /\ faults = 0

Init ==
    /\ pc = "open"
    /\ LoopCount \in -1..MaxLoopCount
    /\ requested = LoopCount
    /\ DelayMultiplier \in -MaxMultiplier..MaxMultiplier
    /\ UserWidth \in {0, MaxUserWidth}
    /\ termCols = MaxTerm
    /\ termLines = MaxTerm
    /\ file \in {StillFile} \cup GifFiles(GifFrames({Pixels}, 0..MaxGifDelay), MaxFrames)
    /\ open = {} /\ tput = <<>>
    /\ frames = <<>> /\ w = 0 /\ h = 0
    /\ err = "none" /\ i = 0
    /\ FreshInitLocals
    /\ FreshDrawLocals

Next ==
    \/ Open \/ OpenFail \/ Decode \/ DecodeFail
    \/ ResolveGeometry \/ TputColsFail \/ TputLinesFail
    \/ Static \/ GifOpen \/ GifOpenFail \/ DecodeAll \/ DecodeAllFail
    \/ GifFrame \/ GifDone

Spec == Init /\ [][Next]_vars

\* C3: after a successful Init on a fresh Image whose source is a static image
\* (any requested LoopCount) or a GIF with requested LoopCount 0, the Image
\* holds exactly one frame and its LoopCount is 1
C3_SingleFrame ==
    (pc = "returned" /\ err = "nil" /\ (file.fmt # "gif" \/ requested = 0))
        => (Len(frames) = 1 /\ LoopCount = 1)

\* an animated GIF of two frames, requested with LoopCount 0, was initialised
C3_Witness ==
    /\ pc = "returned" /\ err = "nil"
    /\ file.fmt = "gif" /\ Len(file.frames) = 2 /\ requested = 0
    /\ Len(frames) = 1 /\ LoopCount = 1

\* C7: after a successful Init every stored frame has delay >= 0, whatever the
\* source delays and the configured DelayMultiplier, LoopCount and UserWidth
C7_DelayNonNegative ==
    (pc = "returned" /\ err = "nil") => \A k \in 1..Len(frames) : frames[k].delay >= 0

\* C10: every file handle Init opened is closed when Init returns, on the
\* success path and on every error path
C10_NoOpenHandle == (pc = "returned") => (open = {})

(***************************************************************************)
(* SpecGif: the compositing of Init (lines 131-166) on GIF files whose      *)
(* frames cover any part of the canvas, after a successful decode and       *)
(* geometry resolution.                                                     *)
(***************************************************************************)
GifInit ==
    /\ pc = "frames"
    /\ LoopCount \in 1..MaxLoopCount
    /\ requested = LoopCount
    /\ DelayMultiplier = 2
    /\ UserWidth = 0
    /\ termCols = MaxTerm
    /\ termLines = MaxTerm
    /\ file \in GifFiles(GifFrames(SUBSET Pixels, {0}), MaxFrames)
    /\ open = {} /\ tput = TputCmds(UserWidth, "gif", LoopCount)
    /\ frames = <<>>
    /\ w = Width(Scale(UserWidth, "gif", LoopCount, NPix, NPix, termCols, termLines), NPix)
    /\ h = Height(Scale(UserWidth, "gif", LoopCount, NPix, NPix, termCols, termLines), NPix)
    /\ err = "none" /\ i = 0
    /\ imgFmt = "gif" /\ iw = file.iw /\ ih = file.ih
    /\ firstFrame = DrawOver(Blank, 1, file.frames[1].mask)
    /\ g = <<>> /\ canvas = 0 /\ prev = 0 /\ heap = <<>> /\ remembered = <<>>
    /\ FreshDrawLocals

GifNext == GifOpen \/ GifOpenFail \/ DecodeAll \/ DecodeAllFail \/ GifFrame \/ GifDone

SpecGif == GifInit /\ [][GifNext]_vars

\* C8: once a frame with disposal restore-to-previous has been processed, the
\* canvas the next frame is drawn onto holds the contents remembered at the
\* most recent earlier frame with disposal none or restore-to-background, or,
\* without such a frame, the contents it had when the frame was captured
C8_RestorePrevious ==
    (pc = "gif" /\ i >= 1 /\ g[i].disposal = DisposalPrevious)
        => heap[canvas] = (IF remembered # <<>> THEN remembered[1]
                           ELSE frames[i].picture.src)

\* C9: when frame k has disposal restore-to-background, the raster captured
\* for frame k+1 is frame k+1's own pixels over a blank canvas
C9_BackgroundBlank ==
    \A k \in 1..(Len(frames) - 1) :
        (g[k].disposal = DisposalBackground)
            => frames[k + 1].picture.src = [p \in Pixels |->
                    IF p \in g[k + 1].mask THEN k + 1 ELSE 0]

\* frame 1 painted a pixel and asked for restore-to-background; frame 2, with
\* disposal restore-to-previous, left that pixel untouched and was captured
C9_Witness ==
    /\ Len(frames) >= 2
    /\ g[1].disposal = DisposalBackground /\ g[1].mask = {1}
    /\ g[2].disposal = DisposalPrevious /\ g[2].mask = {2}
    /\ frames[2].picture.src[1] = 0 /\ frames[2].picture.src[2] = 2

(***************************************************************************)
(* SpecGeom: the geometry of Init (lines 65-110) after a successful        *)
(* decode.                                                                 *)
(***************************************************************************)
GeomFiles ==
    [fmt : {"png", "gif"},
     iw : (1..GeomMaxWidth) \cup {DefaultCols + 1},
     ih : 1..GeomMaxHeight,
     cw : {NPix}, ch : {NPix},
     frames : {<<[mask |-> Pixels, delay |-> 0, disposal |-> 0]>>}]

\* the LoopCount values of SpecGeom
GeomLoopCounts == <<1, 0, -1>>

GeomInit ==
    /\ pc = "scale"
    /\ \E k \in 1..Len(GeomLoopCounts) : LoopCount = GeomLoopCounts[k]
    /\ requested = LoopCount
    /\ DelayMultiplier = 2
    /\ UserWidth \in 0..GeomMaxUserWidth
    /\ termCols \in (1..GeomMaxCols) \cup {DefaultCols + 1}
    /\ termLines \in 1..GeomMaxLines
    /\ file \in GeomFiles
    /\ open = {} /\ tput = <<>>
    /\ frames = <<>> /\ w = 0 /\ h = 0
    /\ err = "none" /\ i = 0
    /\ imgFmt = file.fmt /\ iw = file.iw /\ ih = file.ih
    /\ firstFrame = DrawOver(Blank, 1, file.frames[1].mask)
    /\ g = <<>> /\ canvas = 0 /\ prev = 0 /\ heap = <<>> /\ remembered = <<>>
    /\ FreshDrawLocals

GeomNext == ResolveGeometry \/ TputColsFail \/ TputLinesFail

SpecGeom == GeomInit /\ [][GeomNext]_vars

\* the columns Init fits the image to: the terminal's, or the fixed 40 of a
\* GIF with LoopCount # 0
C_FitCols == IF file.fmt # "gif" \/ requested = 0 THEN termCols ELSE 40

\* C4 as stated: with UserWidth = 0, tc >= iw and 2*tr - 1 >= ih give w = iw
\* and h = floor(ih/2), for every image, static or animated, at any LoopCount
C4_Original ==
    (pc = "frames" /\ UserWidth = 0 /\ termCols >= iw /\ 2 * termLines - 1 >= ih)
        => (w = iw /\ h = ih \div 2)

\* C4 amended: the same with the columns Init fits to in place of tc
C4_FitsUnscaled ==
    (pc = "frames" /\ UserWidth = 0 /\ C_FitCols >= iw /\ 2 * termLines - 1 >= ih)
        => (w = iw /\ h = ih \div 2)

\* a 3 x 3 still image resolved on a terminal of 3 columns and 2 lines
C4_Witness ==
    /\ pc = "frames" /\ UserWidth = 0 /\ file.fmt = "png"
    /\ iw = 3 /\ ih = 3 /\ termCols = 3 /\ termLines = 2
    /\ w = 3 /\ h = 1

\* C5: with UserWidth uw > 0, Init runs no tput, w = uw and
\* h = floor(floor(uw/iw*ih)/2), whatever the terminal
C5_UserWidth ==
    (pc = "frames" /\ UserWidth > 0)
        => /\ tput = <<>>
           /\ w = UserWidth
           /\ h = ((UserWidth * ih) \div iw) \div 2

\* C6 as stated: with UserWidth = 0, w <= tc and 2*h <= 2*tr - 1 for every
\* source, static or animated, at any LoopCount
C6_Original ==
    (pc = "frames" /\ UserWidth = 0)
        => (w <= termCols /\ 2 * h <= 2 * termLines - 1)

\* C6 amended: the same with the columns Init fits to in place of tc
C6_WithinViewport ==
    (pc = "frames" /\ UserWidth = 0)
        => (w <= C_FitCols /\ 2 * h <= 2 * termLines - 1)

\* a 3 x 3 still image was scaled down to the 2 columns of the terminal
C6_Witness ==
    /\ pc = "frames" /\ UserWidth = 0 /\ file.fmt = "png"
    /\ iw = 3 /\ ih = 3 /\ termCols = 2 /\ termLines = 2
    /\ w = 2 /\ h = 1

(***************************************************************************)
(* SpecDraw: Image.Draw on an Image, and a Writer that fails at most one   *)
(* call.                                                                   *)
(***************************************************************************)
\* the frame sequences of an Image of the given size: frame k shows a raster
\* of its own (colour k)
DrawFrames(width, height) ==
    {<<>>} \cup UNION {
        {[k \in 1..len |-> [picture |-> Picture([p \in Pixels |-> k], width, height),
                            delay |-> ds[k]]] : ds \in [1..len -> 0..DrawMaxDelay]} :
        len \in 1..DrawMaxFrames}

DrawInit ==
    /\ pc = "ready"
    /\ LoopCount \in 0..DrawMaxLoop
    /\ requested = LoopCount
    /\ DelayMultiplier = 2
    /\ UserWidth = 0
    /\ termCols = MaxTerm
    /\ termLines = MaxTerm
    /\ file = StillFile
    /\ open = {} /\ tput = <<>>
    /\ w \in 0..DrawMaxSide
    /\ h \in 0..DrawMaxSide
    /\ frames \in DrawFrames(w, h)
    /\ err = "none" /\ i = 0
    /\ FreshInitLocals
    /\ firstFrameDone = FALSE /\ delay = 0 /\ fr = 0 /\ y = 0 /\ x = 0
    /\ sink = <<>>
    /\ faults \in 0..1

DrawNext ==
    \/ DrawBegin \/ Pass \/ FrameHead \/ LineUp \/ Sleep \/ Row
    \/ WriteCell \/ WriteNewline \/ Close

SpecDraw == DrawInit /\ [][DrawNext]_vars

\* the Write calls of one drawing of frame k: row by row, the cells then "\n"
RECURSIVE C1_Rows(_, _)
C1_Rows(k, yy) ==
    IF yy >= h THEN <<>>
    ELSE [c \in 1..w |-> WriteCellCall(k, c - 1, yy, TRUE)]
            \o <<WriteNewlineCall(TRUE)>> \o C1_Rows(k, yy + 1)

\* the frame drawn m-th: the frame sequence, repeated
C1_Drawn(m) == ((m - 1) % Len(frames)) + 1

\* the calls up to and including the m-th drawing
RECURSIVE C1_Calls(_)
C1_Calls(m) ==
    IF m = 0 THEN <<>>
    ELSE IF m = 1 THEN C1_Rows(C1_Drawn(1), 0)
    ELSE C1_Calls(m - 1)
            \o <<LineUpCall(h, TRUE), SleepCall(frames[C1_Drawn(m - 1)].delay, TRUE)>>
            \o C1_Rows(C1_Drawn(m), 0)

C1_NoFailure == \A c \in 1..Len(sink) : sink[c].ok

\* C1: with n >= 1 frames, LoopCount L >= 1 and no failing call, Draw makes
\* n*L drawings in frame order repeated L times; nothing precedes the first;
\* each later one is preceded by one LineUp(h) and one Sleep(delay of the
\* frame drawn just before); Close is called once, last
C1_Playback ==
    (pc = "returned" /\ C1_NoFailure /\ Len(frames) >= 1 /\ LoopCount >= 1)
        => sink = C1_Calls(Len(frames) * LoopCount) \o <<CloseCall(TRUE)>>

\* two frames of delays 0 and 1 were played twice on a 2 x 2 grid: four
\* drawings of six Writes each, three sleeps, of 0, 1 and 0, and Close
C1_Witness ==
    /\ pc = "returned" /\ C1_NoFailure
    /\ Len(frames) = 2 /\ LoopCount = 2 /\ w = 2 /\ h = 2
    /\ frames[1].delay = 0 /\ frames[2].delay = 1
    /\ Len(sink) = 31
    /\ sink[8] = SleepCall(0, TRUE) /\ sink[16] = SleepCall(1, TRUE)
    /\ sink[24] = SleepCall(0, TRUE)
    /\ sink[17] = WriteCellCall(1, 0, 0, TRUE) /\ sink[18] = WriteCellCall(1, 1, 0, TRUE)
    /\ sink[31] = CloseCall(TRUE)

\* C2: when a call on the Writer fails, Draw makes no further call and
\* returns that call's error
C2_AbortOnFailure ==
    \A c \in 1..Len(sink) :
        ~sink[c].ok => (c = Len(sink) /\ pc = "returned" /\ err = sink[c].op)

====
